---- MODULE Spec2Model ----
(***************************************************************************)
(* Safety pipeline of the database query assistant:                        *)
(*   QueryValidator -> RBACManager -> RedisCache -> QueryExecutor          *)
(* together with the permission administration helpers and the rate        *)
(* limiter.  A query text is a sequence of SQL tokens.                     *)
(***************************************************************************)
EXTENDS Integers, Sequences, FiniteSets, TLC

VARIABLES
    users,          \* users table: user id -> User row or NoUser
    perms,          \* role_permissions table: <<user, table>> -> row or NoRow
    permCache,      \* redis "user:perm:" namespace: <<user, table>> -> entry or Miss
    resultCache,    \* redis "query:result:" namespace: <<sql, params>> -> rows or Miss
    cacheDisabled,  \* RedisCache._disabled
    dbRows,         \* rows the queried table currently holds
    audit,          \* number of QueryHistory rows written by the executor
    invocations,    \* number of execute_query calls made so far
    last,           \* observation of the most recent operation
    stale,          \* <<user, table>> -> kind of store mutation the cache entry predates
    rlCount,        \* redis "rate:limit:" counter of the user (0 = key absent)
    rlLimit,        \* limit used by the calls of the current window
    rlCalls,        \* check_rate_limit calls returned in the current window
    rlTrues,        \* ... of which returned True
    rlLast,         \* result of the latest check_rate_limit call
    rlProc,         \* concurrent check_rate_limit calls: caller -> position and value read
    rlTtl,          \* whether the counter key of the user carries an expiry
    permRows,       \* role_permissions as the list of its rows, written by concurrent sessions
    grantProc       \* concurrent grant / revoke sessions: position and what the SELECT returned

vars == <<users, perms, permCache, resultCache, cacheDisabled, dbRows, audit,
          invocations, last, stale,
          rlCount, rlLimit, rlCalls, rlTrues, rlLast, rlProc, rlTtl, permRows, grantProc>>

execVars == <<resultCache, dbRows, audit, invocations>>
rateVars == <<rlCount, rlLimit, rlCalls, rlTrues, rlLast, rlProc, rlTtl>>
adminVars == <<permRows, grantProc>>

----------------------------------------------------------------------------
(* Bounds *)

MaxInvocations == 2
MaxLimit == 3
MaxCalls == 5
MaxCallers == 2
MaxSessions == 2
MaxInserts == 3

----------------------------------------------------------------------------
(* Domains *)

UserIds == {1, 2}
GrantUsers == {1}
Tables == {"orders", "ghost"} \* "ghost" does not exist in the database
ExistingTables == {"orders"}
Roles == {"viewer", "analyst", "admin"}
Callers == 1..MaxCallers      \* requests of one user that are in flight together

NoUser == [tag |-> "NoUser"]
NoRow == [tag |-> "NoRow"]
Miss == [tag |-> "Miss"]
Null == "<null>"
Idle == [pc |-> "idle", seen |-> 0]
Sessions == 1..MaxSessions    \* administration sessions that are in flight together
Resting == [pc |-> "rest"]
EmptyTable == [seq |-> 0, rows |-> <<>>]

User(role, active) == [tag |-> "User", role |-> role, is_active |-> active]

NullColumns == [null |-> TRUE, cols |-> <<>>]
Columns(c) == [null |-> FALSE, cols |-> c]

Permission(can_read, allowed_columns, row_filter) ==
    [tag |-> "Perm", can_read |-> can_read,
     allowed_columns |-> allowed_columns, row_filter |-> row_filter]

\* the grants an administrator issues in this model
GrantArgs ==
    { [allowed_columns |-> NullColumns, row_filter |-> Null],
      [allowed_columns |-> Columns(<<"id", "status">>), row_filter |-> "region='west'"] }

----------------------------------------------------------------------------
(* RedisCache: permission namespace *)

\* json.dumps / json.loads of a permissions dict
JsonPermission(p) ==
    Permission(p.can_read,
               IF p.allowed_columns.null THEN NullColumns
               ELSE Columns([i \in 1..Len(p.allowed_columns.cols) |-> p.allowed_columns.cols[i]]),
               p.row_filter)

\* RedisCache.client: raises RuntimeError when the cache is disabled
ClientRaises(disabled) == disabled

\* RedisCache.get_user_permissions -> [raised, value]
get_user_permissions(disabled, pc, u, t) ==
    IF ClientRaises(disabled) THEN [raised |-> TRUE, value |-> Miss]
    ELSE [raised |-> FALSE, value |-> pc[<<u, t>>]]

\* RedisCache.set_user_permissions -> [raised, cache]
set_user_permissions(disabled, pc, u, t, p) ==
    IF ClientRaises(disabled) THEN [raised |-> TRUE, cache |-> pc]
    ELSE [raised |-> FALSE, cache |-> [pc EXCEPT ![<<u, t>>] = JsonPermission(p)]]

----------------------------------------------------------------------------
(* RBACManager.check_table_access *)

AdminPermission == Permission(TRUE, NullColumns, Null)

CheckReturn(has_access, permissions, pc, raised, source) ==
    [has_access |-> has_access, permissions |-> permissions, cache |-> pc,
     raised |-> raised, source |-> source]

check_table_access(disabled, us, ps, pc, u, t) ==
    LET cached == get_user_permissions(disabled, pc, u, t) IN
    IF cached.raised THEN CheckReturn(FALSE, Miss, pc, TRUE, "raise")
    ELSE IF cached.value # Miss
    THEN CheckReturn(cached.value.can_read, cached.value, pc, FALSE, "cache")
    ELSE IF us[u] = NoUser \/ ~us[u].is_active
    THEN CheckReturn(FALSE, Miss, pc, FALSE, "user")
    ELSE IF us[u].role = "admin"
    THEN LET w == set_user_permissions(disabled, pc, u, t, AdminPermission) IN
         CheckReturn(TRUE, AdminPermission, w.cache, w.raised, "admin")
    ELSE IF ps[<<u, t>>] = NoRow
    THEN CheckReturn(FALSE, Miss, pc, FALSE, "store")
    ELSE LET row == ps[<<u, t>>]
             permissions == Permission(row.can_read, row.allowed_columns, row.row_filter)
             w == set_user_permissions(disabled, pc, u, t, permissions)
         IN CheckReturn(row.can_read, permissions, w.cache, w.raised, "store")

----------------------------------------------------------------------------
(* server/auth/permissions.py *)

grant_table_permission(ps, u, t, allowed_columns, row_filter) ==
    [ps EXCEPT ![<<u, t>>] = Permission(TRUE, allowed_columns, row_filter)]

revoke_table_permission(ps, u, t) ==
    [ps EXCEPT ![<<u, t>>] = NoRow]

update_user_role(us, u, new_role) ==
    IF us[u] # NoUser THEN [us EXCEPT ![u].role = new_role] ELSE us

----------------------------------------------------------------------------
(* QueryValidator: a query text is a sequence of tokens *)

FORBIDDEN_KEYWORDS ==
    {"DROP", "DELETE", "UPDATE", "INSERT", "ALTER", "CREATE", "TRUNCATE", "REPLACE",
     "GRANT", "REVOKE", "COMMIT", "ROLLBACK", "SAVEPOINT", "EXEC", "EXECUTE", "CALL"}

\* str.upper() on the tokens that are written in lower case in this model
UpperOf ==
    [t \in {"select", "from", "where", "limit", "drop", "join"} |->
        CASE t = "select" -> "SELECT" [] t = "from" -> "FROM" [] t = "where" -> "WHERE"
          [] t = "limit" -> "LIMIT" [] t = "drop" -> "DROP" [] t = "join" -> "JOIN"]

Upper(tok) == IF tok \in DOMAIN UpperOf THEN UpperOf[tok] ELSE tok

HasToken(sql, word) == \E i \in 1..Len(sql) : sql[i] = word
HasUpperToken(sql, word) == \E i \in 1..Len(sql) : Upper(sql[i]) = word
HasUpperPair(sql, w1, w2) ==
    \E i \in 1..(Len(sql) - 1) : Upper(sql[i]) = w1 /\ Upper(sql[i + 1]) = w2

\* SUSPICIOUS_PATTERNS, searched case-insensitively
Suspicious(sql) ==
    \/ \E i \in 1..(Len(sql) - 1) : sql[i] = ";" /\ Upper(sql[i + 1]) \in {"DROP", "DELETE"}
    \/ HasToken(sql, "--")
    \/ \E i, j \in 1..Len(sql) : i < j /\ sql[i] = "/*" /\ sql[j] = "*/"
    \/ HasUpperToken(sql, "XP_CMDSHELL")
    \/ HasUpperPair(sql, "INTO", "OUTFILE")
    \/ HasUpperPair(sql, "INTO", "DUMPFILE")
    \/ HasUpperToken(sql, "LOAD_FILE")
    \/ \E i, j \in 1..Len(sql) : i < j /\ Upper(sql[i]) = "UNION" /\ Upper(sql[j]) = "SELECT"

\* sqlparse.parse(...): statements are separated by ";"
StatementCount(sql) ==
    1 + Cardinality({i \in 1..(Len(sql) - 1) : sql[i] = ";"})

\* Statement.get_type()
StatementType(sql) ==
    IF Upper(sql[1]) \in {"SELECT"} \cup FORBIDDEN_KEYWORDS THEN Upper(sql[1]) ELSE "UNKNOWN"

\* the forbidden keywords that occur inside a token without being the whole token
KeywordsInside(tok) ==
    CASE tok = "backdrop_events" -> {"DROP"}
      [] tok = "created_at" -> {"CREATE"}
      [] OTHER -> {}

\* variant that rejects the empty text only
validate_query_permissive(sql, allow_write) ==
    IF sql = <<>> THEN [ok |-> FALSE, reason |-> "Empty query"]
    ELSE [ok |-> TRUE, reason |-> Null]

\* variant that searches the keywords without the word boundaries
validate_query_substring(sql, allow_write) ==
    IF sql = <<>> THEN [ok |-> FALSE, reason |-> "Empty query"]
    ELSE IF ~allow_write /\ \E i \in 1..Len(sql) :
                                \/ Upper(sql[i]) \in FORBIDDEN_KEYWORDS
                                \/ KeywordsInside(sql[i]) # {}
    THEN [ok |-> FALSE, reason |-> "Forbidden keyword"]
    ELSE IF Suspicious(sql)
    THEN [ok |-> FALSE, reason |-> "Suspicious pattern detected"]
    ELSE IF StatementCount(sql) > 1
    THEN [ok |-> FALSE, reason |-> "Multiple SQL statements not allowed"]
    ELSE IF ~allow_write /\ StatementType(sql) # "SELECT"
    THEN [ok |-> FALSE, reason |-> "Only SELECT queries allowed"]
    ELSE [ok |-> TRUE, reason |-> Null]

validate_query(sql, allow_write) ==
    IF sql = <<>> THEN [ok |-> FALSE, reason |-> "Empty query"]
    ELSE IF ~allow_write /\ \E i \in 1..Len(sql) : Upper(sql[i]) \in FORBIDDEN_KEYWORDS
    THEN [ok |-> FALSE, reason |-> "Forbidden keyword"]
    ELSE IF Suspicious(sql)
    THEN [ok |-> FALSE, reason |-> "Suspicious pattern detected"]
    ELSE IF StatementCount(sql) > 1
    THEN [ok |-> FALSE, reason |-> "Multiple SQL statements not allowed"]
    ELSE IF ~allow_write /\ StatementType(sql) # "SELECT"
    THEN [ok |-> FALSE, reason |-> "Only SELECT queries allowed"]
    ELSE [ok |-> TRUE, reason |-> Null]

\* tokens sqlparse classifies as Keyword
SqlKeywords ==
    {"SELECT", "FROM", "WHERE", "JOIN", "LEFT", "RIGHT", "INNER", "OUTER", "ON", "AS",
     "ORDER", "GROUP", "BY", "HAVING", "LIMIT", "OFFSET", "UNION", "AND", "OR"}

IsKeyword(tok) == Upper(tok) \in SqlKeywords

Min(S) == CHOOSE x \in S : \A y \in S : x <= y

\* the loop of extract_tables_from_query: once FROM is seen, the next token
\* names the table (its alias is dropped) and the next Keyword token ends the scan
extract_tables_from_query(sql) ==
    LET froms == {i \in 1..Len(sql) : Upper(sql[i]) = "FROM"} IN
    IF froms = {} THEN {}
    ELSE LET f == Min(froms) IN
         IF f + 1 <= Len(sql) /\ ~IsKeyword(sql[f + 1]) THEN {sql[f + 1]} ELSE {}

----------------------------------------------------------------------------
(* RBACManager.apply_row_level_security, the textual rewrite of rbac.py:180-197 *)

TrailingAt(sql, i) ==
    \/ Upper(sql[i]) \in {"LIMIT", "OFFSET", "HAVING"}
    \/ i < Len(sql) /\ Upper(sql[i]) \in {"ORDER", "GROUP"} /\ Upper(sql[i + 1]) = "BY"

\* a token that holds one of the keywords of rbac.py:188 after its first
\* character, as the part before the keyword and the part from the keyword on
TrailingInside(tok) ==
    CASE tok = "speed_limit" -> <<"speed_", "limit">>
      [] OTHER -> <<>>

\* str.find looks for the keywords in the upper-cased text, so it also finds
\* them inside a token; the clause is inserted at the least position found
rewrite_row_filter(base_sql, row_filter) ==
    IF HasUpperToken(base_sql, "WHERE")
    THEN LET hits == {i \in 1..Len(base_sql) : base_sql[i] = "WHERE"} IN
         IF hits = {} THEN base_sql      \* str.replace is case-sensitive
         ELSE LET i == Min(hits) IN
              SubSeq(base_sql, 1, i - 1)
                \o <<"WHERE", "(", row_filter, ")", "AND">>
                \o SubSeq(base_sql, i + 1, Len(base_sql))
    ELSE LET found == {i \in 1..Len(base_sql) :
                          TrailingAt(base_sql, i) \/ TrailingInside(base_sql[i]) # <<>>}
             insert_pos == IF found = {} THEN Len(base_sql) + 1 ELSE Min(found)
         IN IF found # {} /\ ~TrailingAt(base_sql, insert_pos)
            THEN SubSeq(base_sql, 1, insert_pos - 1)
                   \o <<TrailingInside(base_sql[insert_pos])[1], "WHERE", row_filter,
                        TrailingInside(base_sql[insert_pos])[2]>>
                   \o SubSeq(base_sql, insert_pos + 1, Len(base_sql))
            ELSE SubSeq(base_sql, 1, insert_pos - 1)
                   \o <<"WHERE", row_filter>>
                   \o SubSeq(base_sql, insert_pos, Len(base_sql))

\* -> [status, sql, cache]; status is "ok", "denied" (PermissionError) or "raise"
apply_row_level_security(disabled, us, ps, pc, u, t, base_sql) ==
    LET r == check_table_access(disabled, us, ps, pc, u, t) IN
    IF r.raised THEN [status |-> "raise", sql |-> base_sql, cache |-> r.cache]
    ELSE IF ~r.has_access \/ r.permissions = Miss
    THEN [status |-> "denied", sql |-> base_sql, cache |-> r.cache]
    ELSE IF r.permissions.row_filter \in {Null, ""}
    THEN [status |-> "ok", sql |-> base_sql, cache |-> r.cache]
    ELSE [status |-> "ok", sql |-> rewrite_row_filter(base_sql, r.permissions.row_filter),
          cache |-> r.cache]

\* variant that lists the allowed columns that were requested, in the order of
\* the permission
filter_columns_in_allowed_order(disabled, us, ps, pc, u, t, columns) ==
    LET Result(r) ==
            IF r.raised THEN [status |-> "raise", columns |-> <<>>, check |-> r]
            ELSE IF ~r.has_access \/ r.permissions = Miss
            THEN [status |-> "denied", columns |-> <<>>, check |-> r]
            ELSE IF r.permissions.allowed_columns.null
            THEN [status |-> "ok", columns |-> columns, check |-> r]
            ELSE [status |-> "ok",
                  columns |-> SelectSeq(r.permissions.allowed_columns.cols,
                                        LAMBDA c : \E i \in 1..Len(columns) : columns[i] = c),
                  check |-> r]
    IN Result(check_table_access(disabled, us, ps, pc, u, t))

\* RBACManager.filter_columns -> [status, columns, check]; status is "ok",
\* "denied" (PermissionError) or "raise"; check is what check_table_access returned
filter_columns(disabled, us, ps, pc, u, t, columns) ==
    LET Result(r) ==
            IF r.raised THEN [status |-> "raise", columns |-> <<>>, check |-> r]
            ELSE IF ~r.has_access \/ r.permissions = Miss
            THEN [status |-> "denied", columns |-> <<>>, check |-> r]
            ELSE IF r.permissions.allowed_columns.null
            THEN [status |-> "ok", columns |-> columns, check |-> r]
            ELSE [status |-> "ok",
                  columns |-> SelectSeq(columns,
                                 LAMBDA c : \E i \in 1..Len(r.permissions.allowed_columns.cols) :
                                               r.permissions.allowed_columns.cols[i] = c),
                  check |-> r]
    IN Result(check_table_access(disabled, us, ps, pc, u, t))

----------------------------------------------------------------------------
(* Database contents and result conversion *)

Val(type, v) == [type |-> type, v |-> v]

RowWest == [id |-> Val("int", 1), region |-> Val("str", "west"), created_at |-> Val("datetime", 7)]
RowEast == [id |-> Val("int", 2), region |-> Val("str", "east"), created_at |-> Val("datetime", 9)]

DataSets == {<<>>, <<RowWest, RowEast>>}

\* what the database answers to the statement text it is sent
DbSelect(data, dbsql) ==
    IF HasToken(dbsql, "region='west'")
    THEN SelectSeq(data, LAMBDA r : r.region.v = "west")
    ELSE data

\* query_executor.py:116-120, datetime -> isoformat(), Decimal -> float
ConvertValue(x) ==
    CASE x.type = "datetime" -> Val("str", x.v)
      [] x.type = "Decimal" -> Val("float", x.v)
      [] OTHER -> x

ConvertRow(r) == [c \in DOMAIN r |-> ConvertValue(r[c])]
ConvertRows(rs) == [i \in 1..Len(rs) |-> ConvertRow(rs[i])]

\* json.dumps then json.loads of a row list: JSON-native values come back unchanged
JsonValue(x) ==
    CASE x.type \in {"int", "str", "float", "bool", "null"} -> x
      [] OTHER -> Val("TypeError", x.v)

JsonRows(rs) == [i \in 1..Len(rs) |-> [c \in DOMAIN rs[i] |-> JsonValue(rs[i][c])]]

----------------------------------------------------------------------------
(* RedisCache: query-result namespace *)

NoParams == "None"
ParamSets == {NoParams, "{id: 1}"}

\* _generate_query_key: the text, followed by the params when there are any
generate_query_key(sql, params) == <<sql, IF params \in {NoParams, "{}"} THEN "" ELSE params>>

\* variant that looks the entry up under the text alone
get_query_result_text_key(disabled, rc, sql, params) ==
    LET key == generate_query_key(sql, NoParams) IN
    IF ClientRaises(disabled) THEN [raised |-> TRUE, value |-> Miss]
    ELSE IF key \in DOMAIN rc THEN [raised |-> FALSE, value |-> rc[key]]
    ELSE [raised |-> FALSE, value |-> Miss]

get_query_result(disabled, rc, sql, params) ==
    LET key == generate_query_key(sql, params) IN
    IF ClientRaises(disabled) THEN [raised |-> TRUE, value |-> Miss]
    ELSE IF key \in DOMAIN rc THEN [raised |-> FALSE, value |-> rc[key]]
    ELSE [raised |-> FALSE, value |-> Miss]

set_query_result(disabled, rc, sql, result, params) ==
    LET key == generate_query_key(sql, params) IN
    IF ClientRaises(disabled) THEN [raised |-> TRUE, cache |-> rc]
    ELSE [raised |-> FALSE,
          cache |-> [k \in DOMAIN rc \cup {key} |->
                        IF k = key THEN [tag |-> "Rows", rows |-> JsonRows(result)] ELSE rc[k]]]

----------------------------------------------------------------------------
(* QueryExecutor *)

E(ev, ok, arg) == [ev |-> ev, ok |-> ok, arg |-> arg]

max_query_results == "1000"

\* _execute_with_limit: the statement text sent to the database
with_limit(sql) ==
    IF HasUpperToken(sql, "LIMIT") \/ \E i \in 1..Len(sql) : TrailingInside(sql[i]) # <<>>
    THEN sql
    ELSE (IF Len(sql) > 0 /\ sql[Len(sql)] = ";" THEN SubSeq(sql, 1, Len(sql) - 1) ELSE sql)
           \o <<"LIMIT", max_query_results>>

\* variant whose loop goes on after a denial
AccessStep_past_denial(disabled, us, ps, u, table, p) ==
    LET r == check_table_access(disabled, us, ps, p.cache, u, table) IN
    [status |-> IF r.raised THEN "raise" ELSE "ok", sql |-> p.sql, cache |-> r.cache,
     trace |-> IF r.raised THEN p.trace ELSE Append(p.trace, E("access", r.has_access, table)),
     table |-> IF r.raised THEN table ELSE Null]

\* one iteration of the loop of step 3 of execute_query; p is the loop state
AccessStep(disabled, us, ps, u, table, p) ==
    LET r == check_table_access(disabled, us, ps, p.cache, u, table) IN
    IF r.raised
    THEN [status |-> "raise", sql |-> p.sql, cache |-> r.cache, trace |-> p.trace,
          table |-> table]
    ELSE IF ~r.has_access
    THEN [status |-> "denied", sql |-> p.sql, cache |-> r.cache,
          trace |-> Append(p.trace, E("access", FALSE, table)), table |-> table]
    ELSE IF r.permissions # Miss /\ r.permissions.row_filter \notin {Null, ""}
    THEN LET w == apply_row_level_security(disabled, us, ps, r.cache, u, table, p.sql) IN
         IF w.status # "ok"
         THEN [status |-> IF w.status = "raise" THEN "raise" ELSE "rls_denied",
               sql |-> p.sql, cache |-> w.cache,
               trace |-> Append(p.trace, E("access", TRUE, table)), table |-> table]
         ELSE [status |-> "ok", sql |-> w.sql, cache |-> w.cache,
               trace |-> p.trace \o <<E("access", TRUE, table), E("rls", TRUE, table)>>,
               table |-> Null]
    ELSE [status |-> "ok", sql |-> p.sql, cache |-> r.cache,
          trace |-> Append(p.trace, E("access", TRUE, table)), table |-> Null]

\* step 3 of execute_query, the loop over the extracted tables
AccessLoop(disabled, us, ps, pc, u, tables, sql, trace) ==
    LET Loop[i \in 0..Len(tables)] ==
            IF i = 0
            THEN [status |-> "ok", sql |-> sql, cache |-> pc, trace |-> trace, table |-> Null]
            ELSE IF Loop[i - 1].status # "ok" THEN Loop[i - 1]
            ELSE AccessStep(disabled, us, ps, u, tables[i], Loop[i - 1])
    IN Loop[Len(tables)]

ExecReturn(outcome, rows, cached, time_ms, sql, audits, trace, pc, rc) ==
    [outcome |-> outcome, rows |-> rows, cached |-> cached, time_ms |-> time_ms,
     sql |-> sql, audits |-> audits, trace |-> trace, pcache |-> pc, rcache |-> rc]

\* _log_query_failure / _log_query_success around the return r: session.add and
\* `await session.commit()`.  The call is not guarded, so an exception of the
\* commit leaves execute_query in place of r.
log_query(auditOutcome, ok, arg, r) ==
    IF auditOutcome = "fail"
    THEN [r EXCEPT !.outcome = "SQLAlchemyError", !.rows = <<>>, !.cached = FALSE,
                   !.time_ms = 0, !.audits = 0,
                   !.trace = Append(r.trace, E("audit_error", ok, arg))]
    ELSE [r EXCEPT !.audits = 1, !.trace = Append(r.trace, E("audit", ok, arg))]

\* variant of line 127 that writes the result through whenever there are rows
cache_wanted_any(cache_results, rows) == rows # <<>>

\* query_executor.py:127, `if cache_results and rows`
cache_wanted(cache_results, rows) == cache_results /\ rows # <<>>

\* steps 5-9 of execute_query: the bounded database call and what follows it.
\* existing is the set of tables the database has.  On a timeout
\* asyncio.wait_for cancels the task that awaits session.execute; the code sends
\* nothing to the server, so whether the statement has stopped there when
\* TimeoutError is raised (cancelOutcome) is not decided by the code.
run_query(disabled, pc, rc, data, sql, params, cache_results, dbOutcome, elapsed, auditOutcome, existing, cancelOutcome, trace) ==
    LET dbsql == with_limit(sql)
        t1 == Append(trace, E("db", TRUE, Null))
        missing == \E t \in extract_tables_from_query(dbsql) : t \notin existing
    IN IF dbOutcome = "timeout"
       THEN log_query(auditOutcome, FALSE, Null,
                      ExecReturn("TimeoutError", <<>>, FALSE, 0, sql, 0,
                                 Append(t1, E("wait_for_cancel", cancelOutcome = "stopped", Null)),
                                 pc, rc))
       ELSE IF dbOutcome = "error" \/ missing
       THEN log_query(auditOutcome, FALSE, Null,
                      ExecReturn("ExecutionError", <<>>, FALSE, 0, sql, 0, t1, pc, rc))
       ELSE LET rows == ConvertRows(DbSelect(data, dbsql)) IN
            IF cache_wanted(cache_results, rows)
            THEN LET w == set_query_result(disabled, rc, sql, rows, params) IN
                 IF w.raised
                 THEN ExecReturn("RuntimeError", <<>>, FALSE, 0, sql, 0, t1, pc, rc)
                 ELSE log_query(auditOutcome, TRUE, Null,
                                ExecReturn("ok", rows, FALSE, elapsed, sql, 0,
                                           Append(t1, E("cache_set", TRUE, Null)), pc, w.cache))
            ELSE log_query(auditOutcome, TRUE, Null,
                           ExecReturn("ok", rows, FALSE, elapsed, sql, 0, t1, pc, rc))

\* query_executor.py:67-142 once the loop over the tables has ended in state loop
after_access_loop(disabled, rc, data, params, cache_results, dbOutcome, elapsed, auditOutcome, existing, cancelOutcome, loop) ==
    IF loop.status = "raise"
    THEN ExecReturn("RuntimeError", <<>>, FALSE, 0, loop.sql, 0, loop.trace, loop.cache, rc)
    ELSE IF loop.status = "denied"
    THEN log_query(auditOutcome, FALSE, loop.table,
                   ExecReturn("PermissionError", <<>>, FALSE, 0, loop.sql, 0,
                              loop.trace, loop.cache, rc))
    ELSE IF loop.status = "rls_denied"
    THEN ExecReturn("PermissionError", <<>>, FALSE, 0, loop.sql, 0, loop.trace,
                    loop.cache, rc)
    ELSE IF cache_results
    THEN LET g == get_query_result(disabled, rc, loop.sql, params)
             t1 == Append(loop.trace, E("cache_get", g.value # Miss, Null))
         IN IF g.raised
            THEN ExecReturn("RuntimeError", <<>>, FALSE, 0, loop.sql, 0,
                            loop.trace, loop.cache, rc)
            ELSE IF g.value # Miss
            THEN ExecReturn("ok", g.value.rows, TRUE, 0, loop.sql, 0, t1,
                            loop.cache, rc)
            ELSE run_query(disabled, loop.cache, rc, data, loop.sql, params,
                           cache_results, dbOutcome, elapsed, auditOutcome, existing,
                           cancelOutcome, t1)
    ELSE run_query(disabled, loop.cache, rc, data, loop.sql, params,
                   cache_results, dbOutcome, elapsed, auditOutcome, existing,
                   cancelOutcome, loop.trace)

\* variant that looks the tables up in the database catalogue before the
\* access check
execute_query_catalogue_first(disabled, us, ps, pc, rc, data, sql, u, params, cache_results, order, dbOutcome, elapsed, auditOutcome, existing, cancelOutcome) ==
    LET v == validate_query(sql, FALSE) IN
    IF ~v.ok
    THEN log_query(auditOutcome, FALSE, Null,
                   ExecReturn("QueryValidationError", <<>>, FALSE, 0, sql, 0,
                              <<E("validate", FALSE, Null)>>, pc, rc))
    ELSE IF extract_tables_from_query(sql) = {}
    THEN ExecReturn("QueryValidationError", <<>>, FALSE, 0, sql, 0,
                    <<E("validate", TRUE, Null), E("extract", FALSE, Null)>>, pc, rc)
    ELSE IF \E t \in extract_tables_from_query(sql) : t \notin existing
    THEN log_query(auditOutcome, FALSE, Null,
                   ExecReturn("ExecutionError", <<>>, FALSE, 0, sql, 0,
                              <<E("validate", TRUE, Null), E("extract", TRUE, Null)>>, pc, rc))
    ELSE after_access_loop(disabled, rc, data, params, cache_results, dbOutcome, elapsed,
                           auditOutcome, existing, cancelOutcome,
                           AccessLoop(disabled, us, ps, pc, u, order, sql,
                                      <<E("validate", TRUE, Null), E("extract", TRUE, Null)>>))

execute_query(disabled, us, ps, pc, rc, data, sql, u, params, cache_results, order, dbOutcome, elapsed, auditOutcome, existing, cancelOutcome) ==
    LET v == validate_query(sql, FALSE) IN
    IF ~v.ok
    THEN log_query(auditOutcome, FALSE, Null,
                   ExecReturn("QueryValidationError", <<>>, FALSE, 0, sql, 0,
                              <<E("validate", FALSE, Null)>>, pc, rc))
    ELSE IF extract_tables_from_query(sql) = {}
    THEN ExecReturn("QueryValidationError", <<>>, FALSE, 0, sql, 0,
                    <<E("validate", TRUE, Null), E("extract", FALSE, Null)>>, pc, rc)
    ELSE after_access_loop(disabled, rc, data, params, cache_results, dbOutcome, elapsed,
                           auditOutcome, existing, cancelOutcome,
                           AccessLoop(disabled, us, ps, pc, u, order, sql,
                                      <<E("validate", TRUE, Null), E("extract", TRUE, Null)>>))

\* explain_query: the statement is sent to the database as it was received
explain_query(sql) == <<E("db", TRUE, Null)>>

----------------------------------------------------------------------------
(* Inputs *)

QSelect == <<"SELECT", "*", "FROM", "orders">>
QNoTable == <<"SELECT", "1">>
QDrop == <<"DROP", "TABLE", "orders">>
QDelete == <<"DELETE", "FROM", "orders">>
QLower == <<"SELECT", "*", "FROM", "orders", "where", "id>0">>

Queries == {QSelect, QNoTable, QDelete}
DbOutcomes == {"ok", "timeout", "error"}
\* the statement on the server when wait_for has cancelled the waiting task
CancelOutcomes == {"stopped", "running"}
CancelOutcomesOf(dbOutcome) == IF dbOutcome = "timeout" THEN CancelOutcomes ELSE {"stopped"}
AuditOutcomes == {"ok", "fail"}   \* whether the commit of the QueryHistory row succeeds
MeasuredMs == {12}

\* list(set(tables)): the extracted tables in any order
Orders(S) ==
    {o \in [1..Cardinality(S) -> S] : \A x \in S : \E i \in 1..Cardinality(S) : o[i] = x}

\* the database catalogue with the existence of the tables of the text reversed
TwinTables(sql) ==
    (ExistingTables \ extract_tables_from_query(sql))
        \cup (extract_tables_from_query(sql) \ ExistingTables)

IsActive(us, u) == us[u] # NoUser /\ us[u].is_active
IsActiveAdmin(us, u) == IsActive(us, u) /\ us[u].role = "admin"

----------------------------------------------------------------------------
(* State machine of the pipeline *)

Init ==
    /\ users = [u \in UserIds |-> IF u = 1 THEN User("viewer", TRUE) ELSE NoUser]
    /\ perms = [k \in UserIds \X Tables |-> NoRow]
    /\ permCache = [k \in UserIds \X Tables |-> Miss]
    /\ resultCache = <<>>
    /\ cacheDisabled \in BOOLEAN
    /\ dbRows \in DataSets
    /\ audit = 0
    /\ invocations = 0
    /\ last = [op |-> "init"]
    /\ stale = [k \in UserIds \X Tables |-> "none"]
    /\ rlCount = [u \in UserIds |-> 0]
    /\ rlLimit = 1
    /\ rlCalls = [u \in UserIds |-> 0]
    /\ rlTrues = [u \in UserIds |-> 0]
    /\ rlLast = [u \in UserIds |-> "none"]
    /\ rlProc = [p \in Callers |-> Idle]
    /\ rlTtl = [u \in UserIds |-> FALSE]
    /\ permRows = EmptyTable
    /\ grantProc = [p \in Sessions |-> Resting]

\* the call before this one, when it was an execute_query call with the same arguments
FirstCall(u, sql, params, cache_results) ==
    IF /\ last.op = "exec"
       /\ last.u = u /\ last.sql = sql /\ last.params = params
       /\ last.cache_results = cache_results
    THEN [tag |-> "First", outcome |-> last.outcome, rows |-> last.rows,
          cached |-> last.cached]
    ELSE Miss

\* one execute_query call.  With observeTwin the observation also holds what
\* the same call returns when the tables of the text exist exactly where they
\* do not exist now.
Execute(u, sql, params, cache_results, order, dbOutcome, elapsed, auditOutcome, cancelOutcome, observeTwin) ==
    /\ invocations < MaxInvocations
    /\ \E r \in {execute_query(cacheDisabled, users, perms, permCache, resultCache, dbRows,
                              sql, u, params, cache_results, order, dbOutcome, elapsed,
                              auditOutcome, ExistingTables, cancelOutcome)},
          r2 \in {IF observeTwin
                  THEN execute_query(cacheDisabled, users, perms, permCache, resultCache,
                                     dbRows, sql, u, params, cache_results, order, dbOutcome,
                                     elapsed, auditOutcome, TwinTables(sql), cancelOutcome)
                  ELSE Miss} :
          /\ permCache' = r.pcache
          /\ resultCache' = r.rcache
          /\ audit' = audit + r.audits
          /\ last' = [op |-> "exec", u |-> u, sql |-> sql, params |-> params,
                      cache_results |-> cache_results, outcome |-> r.outcome,
                      rows |-> r.rows, cached |-> r.cached, time_ms |-> r.time_ms,
                      final_sql |-> r.sql, trace |-> r.trace,
                      cache_written |-> (r.pcache # permCache \/ r.rcache # resultCache),
                      result_cache_written |-> (r.rcache # resultCache),
                      first |-> FirstCall(u, sql, params, cache_results),
                      twin |-> IF observeTwin
                               THEN [tag |-> "Twin", outcome |-> r2.outcome, rows |-> r2.rows,
                                     trace |-> r2.trace, audits |-> r2.audits]
                               ELSE Miss]
    /\ invocations' = invocations + 1
    /\ UNCHANGED <<users, perms, cacheDisabled, dbRows, stale>>
    /\ UNCHANGED <<rateVars, adminVars>>

ExecuteQuery(u, sql, params, cache_results, order, dbOutcome, elapsed, auditOutcome, cancelOutcome) ==
    Execute(u, sql, params, cache_results, order, dbOutcome, elapsed, auditOutcome,
            cancelOutcome, FALSE)

ExecuteTwin(u, sql, params, cache_results, order, dbOutcome, elapsed, auditOutcome, cancelOutcome) ==
    Execute(u, sql, params, cache_results, order, dbOutcome, elapsed, auditOutcome,
            cancelOutcome, TRUE)

ExplainQuery(sql) ==
    /\ last' = [op |-> "explain", sql |-> sql, trace |-> explain_query(sql)]
    /\ UNCHANGED <<users, perms, permCache, resultCache, cacheDisabled, dbRows, audit,
                   invocations, stale>>
    /\ UNCHANGED <<rateVars, adminVars>>

\* what the check_table_access call before this one returned for the same user
\* and table, when nothing but the expiry of that cache entry happened since
CallBefore(u, t) ==
    IF last.op = "check" /\ last.u = u /\ last.t = t /\ ~last.raised
    THEN [tag |-> "Result", has_access |-> last.has_access, permissions |-> last.permissions]
    ELSE IF last.op = "expire" /\ last.u = u /\ last.t = t
    THEN last.before
    ELSE Miss

CheckTableAccess(u, t) ==
    /\ LET r == check_table_access(cacheDisabled, users, perms, permCache, u, t) IN
          /\ permCache' = r.cache
          /\ last' = [op |-> "check", u |-> u, t |-> t, raised |-> r.raised,
                      has_access |-> r.has_access, permissions |-> r.permissions,
                      source |-> r.source, before |-> CallBefore(u, t)]
    /\ UNCHANGED <<users, perms, stale>>
    /\ UNCHANGED <<cacheDisabled, execVars, rateVars, adminVars>>

\* the column lists a caller asks for
ColumnLists ==
    {<<"id", "status", "region">>, <<"status", "id", "region">>, <<"region">>, <<>>}

FilterColumns(u, t, columns) ==
    /\ \E r \in {filter_columns(cacheDisabled, users, perms, permCache, u, t, columns)} :
          /\ permCache' = r.check.cache
          /\ last' = [op |-> "filter", u |-> u, t |-> t, requested |-> columns,
                      status |-> r.status, columns |-> r.columns,
                      has_access |-> r.check.has_access,
                      permissions |-> r.check.permissions]
    /\ UNCHANGED <<users, perms, stale>>
    /\ UNCHANGED <<cacheDisabled, execVars, rateVars, adminVars>>

Grant(u, t, g) ==
    /\ perms' = grant_table_permission(perms, u, t, g.allowed_columns, g.row_filter)
    /\ stale' = [stale EXCEPT ![<<u, t>>] =
                    IF permCache[<<u, t>>] # Miss /\ permCache[<<u, t>>] # perms'[<<u, t>>]
                    THEN "regranted" ELSE "none"]
    /\ last' = [op |-> "grant"]
    /\ UNCHANGED <<users, permCache>>
    /\ UNCHANGED <<cacheDisabled, execVars, rateVars, adminVars>>

Revoke(u, t) ==
    /\ perms' = revoke_table_permission(perms, u, t)
    /\ stale' = [stale EXCEPT ![<<u, t>>] =
                    IF perms[<<u, t>>] = NoRow THEN @
                    ELSE IF permCache[<<u, t>>] # Miss THEN "revoked" ELSE "none"]
    /\ last' = [op |-> "revoke"]
    /\ UNCHANGED <<users, permCache>>
    /\ UNCHANGED <<cacheDisabled, execVars, rateVars, adminVars>>

UpdateUserRole(u, new_role) ==
    /\ users[u] # NoUser
    /\ users[u].role # new_role
    /\ users' = update_user_role(users, u, new_role)
    /\ last' = [op |-> "role"]
    /\ UNCHANGED <<perms, permCache, stale>>
    /\ UNCHANGED <<cacheDisabled, execVars, rateVars, adminVars>>

\* users.is_active is written by the provisioning process
SetActive(u, active) ==
    /\ users[u] # NoUser
    /\ users[u].is_active # active
    /\ users' = [users EXCEPT ![u].is_active = active]
    /\ last' = [op |-> "active"]
    /\ UNCHANGED <<perms, permCache, stale>>
    /\ UNCHANGED <<cacheDisabled, execVars, rateVars, adminVars>>

\* USER_PERM_TTL elapses for one permission entry
ExpirePermission(u, t) ==
    /\ permCache[<<u, t>>] # Miss
    /\ permCache' = [permCache EXCEPT ![<<u, t>>] = Miss]
    /\ stale' = [stale EXCEPT ![<<u, t>>] = "none"]
    /\ last' = [op |-> "expire", u |-> u, t |-> t, before |-> CallBefore(u, t)]
    /\ UNCHANGED <<users, perms>>
    /\ UNCHANGED <<cacheDisabled, execVars, rateVars, adminVars>>

\* QUERY_RESULT_TTL elapses for one result entry
ExpireResult(key) ==
    /\ key \in DOMAIN resultCache
    /\ resultCache' = [k \in DOMAIN resultCache \ {key} |-> resultCache[k]]
    /\ last' = [op |-> "expire_result"]
    /\ UNCHANGED <<users, perms, permCache, cacheDisabled, dbRows, audit, invocations, stale>>
    /\ UNCHANGED <<rateVars, adminVars>>

\* the queried tables are written by other applications
DataChange(data) ==
    /\ data # dbRows
    /\ dbRows' = data
    /\ last' = [op |-> "data"]
    /\ UNCHANGED <<users, perms, permCache, resultCache, cacheDisabled, audit, invocations,
                   stale>>
    /\ UNCHANGED <<rateVars, adminVars>>

AccessNext ==
    \/ \E u \in UserIds, t \in Tables : CheckTableAccess(u, t)
    \/ \E u \in GrantUsers, t \in ExistingTables, columns \in ColumnLists :
          FilterColumns(u, t, columns)
    \/ \E u \in GrantUsers, t \in Tables, g \in GrantArgs : Grant(u, t, g)
    \/ \E u \in GrantUsers, t \in Tables : Revoke(u, t)
    \/ \E u \in GrantUsers, r \in Roles : UpdateUserRole(u, r)
    \/ \E u \in GrantUsers, a \in BOOLEAN : SetActive(u, a)
    \/ \E u \in UserIds, t \in Tables : ExpirePermission(u, t)

SpecAccess == Init /\ [][AccessNext]_vars

Next ==
    \/ \E u \in GrantUsers, sql \in Queries, params \in ParamSets, cache_results \in BOOLEAN,
          dbOutcome \in DbOutcomes, elapsed \in MeasuredMs, auditOutcome \in AuditOutcomes :
          \E order \in Orders(extract_tables_from_query(sql)),
             cancelOutcome \in {"stopped"} :   \* SpecPair follows both outcomes
             ExecuteQuery(u, sql, params, cache_results, order, dbOutcome, elapsed,
                          auditOutcome, cancelOutcome)
    \/ \E sql \in Queries : ExplainQuery(sql)
    \/ \E u \in GrantUsers, t \in ExistingTables, g \in GrantArgs : Grant(u, t, g)
    \/ \E u \in GrantUsers, t \in ExistingTables : Revoke(u, t)
    \/ \E u \in GrantUsers, r \in {"viewer", "admin"} : UpdateUserRole(u, r)
    \/ \E u \in UserIds, t \in ExistingTables : ExpirePermission(u, t)
    \/ \E key \in DOMAIN resultCache : ExpireResult(key)
    \/ \E data \in DataSets : DataChange(data)

Spec == Init /\ [][Next]_vars

----------------------------------------------------------------------------
(* The executor shared by a viewer and an administrator, with the permission *)
(* of the viewer fixed for the run                                            *)

PairQueries == {QSelect, QLower}

InitPair ==
    /\ users = [u \in UserIds |-> IF u = 1 THEN User("viewer", TRUE) ELSE User("admin", TRUE)]
    /\ \E row \in {NoRow} \cup {Permission(TRUE, g.allowed_columns, g.row_filter) : g \in GrantArgs} :
          perms = [k \in UserIds \X Tables |-> IF k = <<1, "orders">> THEN row ELSE NoRow]
    /\ permCache = [k \in UserIds \X Tables |-> Miss]
    /\ resultCache = <<>>
    /\ cacheDisabled = FALSE
    /\ dbRows = <<RowWest, RowEast>>
    /\ audit = 0
    /\ invocations = 0
    /\ last = [op |-> "init"]
    /\ stale = [k \in UserIds \X Tables |-> "none"]
    /\ rlCount = [u \in UserIds |-> 0]
    /\ rlLimit = 1
    /\ rlCalls = [u \in UserIds |-> 0]
    /\ rlTrues = [u \in UserIds |-> 0]
    /\ rlLast = [u \in UserIds |-> "none"]
    /\ rlProc = [p \in Callers |-> Idle]
    /\ rlTtl = [u \in UserIds |-> FALSE]
    /\ permRows = EmptyTable
    /\ grantProc = [p \in Sessions |-> Resting]

PairNext ==
    \E u \in UserIds, sql \in PairQueries, params \in {NoParams}, cache_results \in BOOLEAN,
       dbOutcome \in DbOutcomes, elapsed \in MeasuredMs, auditOutcome \in {"ok"} :
       \E order \in Orders(extract_tables_from_query(sql)),
          cancelOutcome \in CancelOutcomesOf(dbOutcome) :
          ExecuteTwin(u, sql, params, cache_results, order, dbOutcome, elapsed, auditOutcome,
                      cancelOutcome)

SpecPair == InitPair /\ [][PairNext]_vars

----------------------------------------------------------------------------
(* The text functions on their own: validate_query, extract_tables_from_query *)
(* and the rewrite of apply_row_level_security, applied to bounded texts      *)

SelectParts ==
    {<<"SELECT", "*">>, <<"select", "*">>, <<"SELECT", "id,status,region">>,
     <<"SELECT", "speed_limit">>}
FromParts ==
    {<<"FROM", "orders">>, <<"from", "orders">>, <<"FROM", "customers">>,
     <<"FROM", "backdrop_events">>, <<"FROM", "orders", "o">>}
JoinParts == {<<>>, <<"JOIN", "customers", "c", "ON", "o.cid=c.id">>}
WhereParts ==
    {<<>>, <<"WHERE", "id=1">>, <<"where", "id=1">>,
     <<"WHERE", "id=1", "OR", "status='open'">>,
     <<"WHERE", "id=1", "AND", "status='open'">>}
TailParts == {<<>>, <<"ORDER", "BY", "id">>, <<"LIMIT", "10">>}

ReadTexts ==
    {sel \o frm \o jn \o wh \o tl :
        sel \in SelectParts, frm \in FromParts, jn \in JoinParts, wh \in WhereParts,
        tl \in TailParts}

OtherTexts ==
    {<<>>, QDrop, QDelete \o <<"WHERE", "id=1">>, <<"UPDATE", "users", "SET", "role='admin'">>,
     <<"TRUNCATE", "TABLE", "users">>, <<"drop", "TABLE", "orders">>,
     <<"SELECT", "created_at", "FROM", "orders">>,
     <<"SELECT", "*", "FROM", "orders", "--", "x">>,
     <<"SELECT", "*", "FROM", "orders", "UNION", "SELECT", "*", "FROM", "customers">>,
     <<"SELECT", "*", "FROM", "orders", ";", "SELECT", "1">>,
     <<"EXPLAIN", "SELECT", "1">>}

Texts == ReadTexts \cup OtherTexts

RowFilters == {g.row_filter : g \in GrantArgs} \ {Null}

InitText ==
    /\ users = [u \in UserIds |-> IF u = 1 THEN User("viewer", TRUE) ELSE NoUser]
    /\ perms = [k \in UserIds \X Tables |-> NoRow]
    /\ permCache = [k \in UserIds \X Tables |-> Miss]
    /\ resultCache = <<>>
    /\ cacheDisabled = FALSE
    /\ dbRows = <<>>
    /\ audit = 0
    /\ invocations = 0
    /\ last \in {[op |-> "text", sql |-> sql] : sql \in Texts}
    /\ stale = [k \in UserIds \X Tables |-> "none"]
    /\ rlCount = [u \in UserIds |-> 0]
    /\ rlLimit = 1
    /\ rlCalls = [u \in UserIds |-> 0]
    /\ rlTrues = [u \in UserIds |-> 0]
    /\ rlLast = [u \in UserIds |-> "none"]
    /\ rlProc = [p \in Callers |-> Idle]
    /\ rlTtl = [u \in UserIds |-> FALSE]
    /\ permRows = EmptyTable
    /\ grantProc = [p \in Sessions |-> Resting]

textFrame == <<users, perms, permCache, resultCache, cacheDisabled, dbRows, audit,
               invocations, stale, rateVars, adminVars>>

\* each action applies one function to the text drawn by InitText
ValidateText(allow_write) ==
    /\ last.op = "text"
    /\ last' = [op |-> "validate", sql |-> last.sql, allow_write |-> allow_write,
                result |-> validate_query(last.sql, allow_write)]
    /\ UNCHANGED textFrame

ExtractTables ==
    /\ last.op = "text"
    /\ last' = [op |-> "extract", sql |-> last.sql,
                tables |-> extract_tables_from_query(last.sql)]
    /\ UNCHANGED textFrame

RewriteRowFilter(row_filter) ==
    /\ last.op = "text"
    /\ last.sql \in ReadTexts
    /\ last' = [op |-> "rewrite", sql |-> last.sql, row_filter |-> row_filter,
                result |-> rewrite_row_filter(last.sql, row_filter)]
    /\ UNCHANGED textFrame

TextNext ==
    \/ \E allow_write \in BOOLEAN : ValidateText(allow_write)
    \/ ExtractTables
    \/ \E f \in RowFilters : RewriteRowFilter(f)

SpecText == InitText /\ [][TextNext]_vars

----------------------------------------------------------------------------
(* Rate limiter *)

\* variant that refuses only once the counter exceeds the limit
check_rate_limit_exceeds(disabled, count, limit) ==
    IF ClientRaises(disabled) THEN [raised |-> TRUE, result |-> FALSE, count |-> count]
    ELSE IF count = 0 THEN [raised |-> FALSE, result |-> TRUE, count |-> 1]
    ELSE IF count > limit THEN [raised |-> FALSE, result |-> FALSE, count |-> count]
    ELSE [raised |-> FALSE, result |-> TRUE, count |-> count + 1]

\* RedisCache.check_rate_limit; count = 0 stands for an absent key
check_rate_limit(disabled, count, limit) ==
    IF ClientRaises(disabled) THEN [raised |-> TRUE, result |-> FALSE, count |-> count]
    ELSE IF count = 0 THEN [raised |-> FALSE, result |-> TRUE, count |-> 1]
    ELSE IF count >= limit THEN [raised |-> FALSE, result |-> FALSE, count |-> count]
    ELSE [raised |-> FALSE, result |-> TRUE, count |-> count + 1]

CheckRateLimit(u) ==
    /\ rlCalls[u] < MaxCalls
    /\ LET r == check_rate_limit(cacheDisabled, rlCount[u], rlLimit) IN
          /\ rlCount' = [rlCount EXCEPT ![u] = r.count]
          /\ rlCalls' = [rlCalls EXCEPT ![u] = IF r.raised THEN @ ELSE @ + 1]
          /\ rlTrues' = [rlTrues EXCEPT ![u] = IF ~r.raised /\ r.result THEN @ + 1 ELSE @]
          /\ rlLast' = [rlLast EXCEPT ![u] =
                           IF r.raised THEN "raise" ELSE IF r.result THEN "true" ELSE "false"]
          \* setex writes the expiry; incr on the existing key keeps it
          /\ rlTtl' = [rlTtl EXCEPT ![u] = IF ~r.raised /\ rlCount[u] = 0 THEN TRUE ELSE @]
    /\ UNCHANGED <<users, perms, permCache, resultCache, cacheDisabled, dbRows, audit,
                   invocations, last, stale, rlLimit, rlProc, adminVars>>

\* RATE_LIMIT_TTL elapses: a counter key that carries an expiry disappears and
\* a new window starts
RateExpire(u) ==
    /\ rlCount[u] > 0
    /\ rlTtl[u]
    /\ rlCount' = [rlCount EXCEPT ![u] = 0]
    /\ rlTtl' = [rlTtl EXCEPT ![u] = FALSE]
    /\ rlCalls' = [rlCalls EXCEPT ![u] = 0]
    /\ rlTrues' = [rlTrues EXCEPT ![u] = 0]
    /\ rlLast' = [rlLast EXCEPT ![u] = "none"]
    /\ UNCHANGED <<users, perms, permCache, resultCache, cacheDisabled, dbRows, audit,
                   invocations, last, stale, rlLimit, rlProc, adminVars>>

InitRate ==
    /\ users = [u \in UserIds |-> IF u = 1 THEN User("viewer", TRUE) ELSE NoUser]
    /\ perms = [k \in UserIds \X Tables |-> NoRow]
    /\ permCache = [k \in UserIds \X Tables |-> Miss]
    /\ resultCache = <<>>
    /\ cacheDisabled \in BOOLEAN
    /\ dbRows = <<>>
    /\ audit = 0
    /\ invocations = 0
    /\ last = [op |-> "init"]
    /\ stale = [k \in UserIds \X Tables |-> "none"]
    /\ rlCount = [u \in UserIds |-> 0]
    /\ rlLimit \in 1..MaxLimit
    /\ rlCalls = [u \in UserIds |-> 0]
    /\ rlTrues = [u \in UserIds |-> 0]
    /\ rlLast = [u \in UserIds |-> "none"]
    /\ rlProc = [p \in Callers |-> Idle]
    /\ rlTtl = [u \in UserIds |-> FALSE]
    /\ permRows = EmptyTable
    /\ grantProc = [p \in Sessions |-> Resting]

RateNext ==
    \/ \E u \in UserIds : CheckRateLimit(u)
    \/ \E u \in UserIds : RateExpire(u)

SpecRate == InitRate /\ [][RateNext]_vars

----------------------------------------------------------------------------
(* Rate limiter, concurrent requests of user 1: every await of              *)
(* check_rate_limit is a point where another request may run                *)

\* redis_cache.py:290, `current = await self.client.get(key)`
RateRead(p) ==
    /\ rlProc[p].pc = "idle"
    /\ rlCalls[1] + Cardinality({q \in Callers : rlProc[q].pc = "read"}) < MaxCalls
    /\ IF ClientRaises(cacheDisabled)
       THEN /\ rlLast' = [rlLast EXCEPT ![1] = "raise"]
            /\ UNCHANGED rlProc
       ELSE /\ rlProc' = [rlProc EXCEPT ![p] = [pc |-> "read", seen |-> rlCount[1]]]
            /\ UNCHANGED rlLast
    /\ UNCHANGED <<users, perms, permCache, resultCache, cacheDisabled, dbRows, audit,
                   invocations, last, stale, rlCount, rlLimit, rlCalls, rlTrues, rlTtl,
                   adminVars>>

\* redis_cache.py:292-303, decided on the value read before:
\* setex(key, ttl, "1"), or return False, or incr(key).  INCR on a key that is
\* absent by now creates it with the value 1 and without an expiry.
RateWrite(p) ==
    /\ rlProc[p].pc = "read"
    /\ LET seen == rlProc[p].seen
           result == seen = 0 \/ seen < rlLimit
       IN /\ rlCount' = [rlCount EXCEPT ![1] =
                            IF seen = 0 THEN 1 ELSE IF seen >= rlLimit THEN @ ELSE @ + 1]
          /\ rlTtl' = [rlTtl EXCEPT ![1] =
                          IF seen = 0 THEN TRUE
                          ELSE IF seen >= rlLimit THEN @
                          ELSE rlCount[1] > 0 /\ @]
          /\ rlTrues' = [rlTrues EXCEPT ![1] = IF result THEN @ + 1 ELSE @]
          /\ rlLast' = [rlLast EXCEPT ![1] = IF result THEN "true" ELSE "false"]
    /\ rlCalls' = [rlCalls EXCEPT ![1] = @ + 1]
    /\ rlProc' = [rlProc EXCEPT ![p] = Idle]
    /\ UNCHANGED <<users, perms, permCache, resultCache, cacheDisabled, dbRows, audit,
                   invocations, last, stale, rlLimit, adminVars>>

RateConcNext ==
    \/ \E p \in Callers : RateRead(p)
    \/ \E p \in Callers : RateWrite(p)
    \/ RateExpire(1)

SpecRateConc == InitRate /\ [][RateConcNext]_vars

----------------------------------------------------------------------------
(* grant_table_permission and revoke_table_permission run by concurrent      *)
(* sessions: the SELECT and the commit of one call are separate awaits, and   *)
(* the table carries the constraint uq_user_table_permission                  *)

RowsFor(tbl, k) == {i \in 1..Len(tbl.rows) : tbl.rows[i].key = k}
HasId(tbl, id) == \E i \in 1..Len(tbl.rows) : tbl.rows[i].id = id

\* INSERT into a table without the unique constraint
insert_row_unconstrained(tbl, k, g) ==
    [outcome |-> "ok",
     table |-> [seq |-> tbl.seq + 1,
                rows |-> Append(tbl.rows,
                                [id |-> tbl.seq + 1, key |-> k,
                                 row |-> Permission(TRUE, g.allowed_columns, g.row_filter)])]]

\* INSERT of session.add + commit: id is autoincrement, and
\* UniqueConstraint("user_id", "database_name", "table_name") refuses a second
\* row for the triple with IntegrityError
insert_row(tbl, k, g) ==
    IF RowsFor(tbl, k) # {}
    THEN [outcome |-> "IntegrityError", table |-> [tbl EXCEPT !.seq = @ + 1]]
    ELSE [outcome |-> "ok",
          table |-> [seq |-> tbl.seq + 1,
                     rows |-> Append(tbl.rows,
                                     [id |-> tbl.seq + 1, key |-> k,
                                      row |-> Permission(TRUE, g.allowed_columns, g.row_filter)])]]

\* UPDATE of the loaded row by primary key; no row with that id: StaleDataError
update_row(tbl, id, g) ==
    IF ~HasId(tbl, id) THEN [outcome |-> "StaleDataError", table |-> tbl]
    ELSE [outcome |-> "ok",
          table |-> [tbl EXCEPT !.rows =
                        [i \in 1..Len(tbl.rows) |->
                            IF tbl.rows[i].id = id
                            THEN [tbl.rows[i] EXCEPT
                                     !.row = Permission(TRUE, g.allowed_columns, g.row_filter)]
                            ELSE tbl.rows[i]]]]

\* DELETE of the loaded row by primary key
delete_row(tbl, id) ==
    IF ~HasId(tbl, id) THEN [outcome |-> "StaleDataError", table |-> tbl]
    ELSE [outcome |-> "ok",
          table |-> [tbl EXCEPT !.rows = SelectSeq(tbl.rows, LAMBDA r : r.id # id)]]

\* scalar_one_or_none() of the SELECT by triple: the id of the row, 0 for None
SelectRow(tbl, k) ==
    IF RowsFor(tbl, k) = {} THEN 0 ELSE tbl.rows[Min(RowsFor(tbl, k))].id

grantFrame == <<users, perms, permCache, resultCache, cacheDisabled, dbRows, audit,
                invocations, stale, rateVars>>

\* permissions.py:36-43
GrantSelect(p, u, t, g) ==
    /\ grantProc[p].pc = "rest"
    /\ permRows.seq + Cardinality({q \in Sessions : grantProc[q].pc = "granting"}) < MaxInserts
    /\ grantProc' = [grantProc EXCEPT ![p] =
                        [pc |-> "granting", key |-> <<u, t>>, g |-> g,
                         seen |-> SelectRow(permRows, <<u, t>>)]]
    /\ last' = [op |-> "grant_select", key |-> <<u, t>>]
    /\ UNCHANGED <<permRows, grantFrame>>

\* permissions.py:45-62
GrantCommit(p) ==
    /\ grantProc[p].pc = "granting"
    /\ \E w \in {IF grantProc[p].seen # 0
                  THEN update_row(permRows, grantProc[p].seen, grantProc[p].g)
                  ELSE insert_row(permRows, grantProc[p].key, grantProc[p].g)} :
          /\ permRows' = w.table
          /\ last' = [op |-> "grant_commit", key |-> grantProc[p].key,
                      seen |-> grantProc[p].seen, outcome |-> w.outcome]
    /\ grantProc' = [grantProc EXCEPT ![p] = Resting]
    /\ UNCHANGED grantFrame

\* permissions.py:86-93, and 100 when no row was found
RevokeSelect(p, u, t) ==
    /\ grantProc[p].pc = "rest"
    /\ grantProc' = [grantProc EXCEPT ![p] =
                        IF SelectRow(permRows, <<u, t>>) = 0 THEN Resting
                        ELSE [pc |-> "revoking", key |-> <<u, t>>,
                              seen |-> SelectRow(permRows, <<u, t>>)]]
    /\ last' = [op |-> "revoke_select", key |-> <<u, t>>]
    /\ UNCHANGED <<permRows, grantFrame>>

\* permissions.py:95-98
RevokeCommit(p) ==
    /\ grantProc[p].pc = "revoking"
    /\ \E w \in {delete_row(permRows, grantProc[p].seen)} :
          /\ permRows' = w.table
          /\ last' = [op |-> "revoke_commit", key |-> grantProc[p].key,
                      seen |-> grantProc[p].seen, outcome |-> w.outcome]
    /\ grantProc' = [grantProc EXCEPT ![p] = Resting]
    /\ UNCHANGED grantFrame

GrantConcNext ==
    \/ \E p \in Sessions, u \in GrantUsers, t \in Tables, g \in GrantArgs : GrantSelect(p, u, t, g)
    \/ \E p \in Sessions : GrantCommit(p)
    \/ \E p \in Sessions, u \in GrantUsers, t \in Tables : RevokeSelect(p, u, t)
    \/ \E p \in Sessions : RevokeCommit(p)

SpecGrantConc == Init /\ [][GrantConcNext]_vars

----------------------------------------------------------------------------
(* Properties *)

\* C1: a statement is sent to the database only after validate_query accepted
\* its text and, after that, check_table_access granted every extracted table;
\* this is stated for every database call the executor makes.
C1_ChecksBeforeDatabase ==
    last.op \in {"exec", "explain"} =>
        \A i \in 1..Len(last.trace) :
            last.trace[i].ev = "db" =>
                \E j \in 1..(i - 1) :
                    /\ last.trace[j] = E("validate", TRUE, Null)
                    /\ \A t \in extract_tables_from_query(last.sql) :
                          \E k \in (j + 1)..(i - 1) : last.trace[k] = E("access", TRUE, t)

\* C2: every execute_query invocation appends exactly one QueryHistory row, so
\* the audit store has as many rows as there were invocations.
C2_OneAuditPerInvocation == audit = invocations

\* C3: default deny: with no Permission row for (user, table) and a user who is
\* not an admin, check_table_access returns has_access = false.
C3_DefaultDeny ==
    ( /\ last.op = "check"
      /\ perms[<<last.u, last.t>>] = NoRow
      /\ ~(users[last.u] # NoUser /\ users[last.u].role = "admin") )
    => ~last.has_access

\* C4: after a revoke that removed the row while a granted permission was
\* cached, check_table_access does not return the cached grant: a user who is
\* not an active admin is denied.
C4_RevokeInvalidates ==
    ( /\ last.op = "check"
      /\ stale[<<last.u, last.t>>] = "revoked"
      /\ ~IsActiveAdmin(users, last.u) )
    => ~last.has_access

\* C5: after a grant that changed the row while an earlier permission was
\* cached, check_table_access returns the columns and row filter of the latest
\* grant (for an active user who is not an admin).
C5_GrantInvalidates ==
    ( /\ last.op = "check"
      /\ stale[<<last.u, last.t>>] = "regranted"
      /\ IsActive(users, last.u) /\ ~IsActiveAdmin(users, last.u) )
    => /\ last.permissions # Miss
       /\ last.permissions.allowed_columns = perms[<<last.u, last.t>>].allowed_columns
       /\ last.permissions.row_filter = perms[<<last.u, last.t>>].row_filter

\* C6: admin bypass: for an active user whose role is admin, check_table_access
\* returns has_access = true with allowed_columns = null and row_filter = null,
\* whatever was cached before.
C6_AdminBypass ==
    ( /\ last.op = "check"
      /\ ~last.raised
      /\ IsActiveAdmin(users, last.u) )
    => /\ last.has_access
       /\ last.permissions = AdminPermission

\* C7: a missing or inactive user is denied by check_table_access, also when a
\* permission was cached before the user was deactivated.
C7_InactiveDenied ==
    ( /\ last.op = "check"
      /\ ~IsActive(users, last.u) )
    => ~last.has_access

\* C8 as stated: the second of two consecutive execute_query calls with the same
\* text and params and caching allowed returns the rows of the first, with
\* cached = true and execution_time_ms = 0, for every result set of the first.
C8_RepeatIsCached ==
    ( /\ last.op = "exec"
      /\ last.first # Miss
      /\ last.cache_results
      /\ last.first.outcome = "ok" )
    => /\ last.outcome = "ok"
       /\ last.rows = last.first.rows
       /\ last.cached
       /\ last.time_ms = 0

\* C8 amended: the same, for every non-empty result set of the first call.
C8_RepeatIsCachedNonEmpty ==
    ( /\ last.op = "exec"
      /\ last.first # Miss
      /\ last.cache_results
      /\ last.first.outcome = "ok"
      /\ last.first.rows # <<>> )
    => /\ last.outcome = "ok"
       /\ last.rows = last.first.rows
       /\ last.cached
       /\ last.time_ms = 0

C8_Witness ==
    /\ last.op = "exec"
    /\ last.first # Miss
    /\ last.cache_results
    /\ last.params # NoParams
    /\ last.first.outcome = "ok"
    /\ ~last.first.cached
    /\ last.first.rows # <<>>
    /\ last.cached
    /\ last.rows = last.first.rows

\* C9: degraded mode: with the cache disabled execute_query still completes
\* with the result it gives uncached; it does not raise the cache's error.
C9_DegradedModeWorks ==
    (cacheDisabled /\ last.op = "exec") => last.outcome # "RuntimeError"

\* C10: rate-limit saturation: within one window the calls of a user return
\* true for exactly the first `limit` calls and false afterwards, and the
\* stored counter never passes limit.
C10_RateLimitSaturates ==
    \A u \in UserIds :
        /\ rlTrues[u] = Min({rlCalls[u], rlLimit})
        /\ rlCount[u] = rlTrues[u]
        /\ rlCount[u] <= rlLimit
        /\ rlLast[u] = "true" => (rlCalls[u] >= 1 /\ rlCalls[u] <= rlLimit)
        /\ rlLast[u] = "false" => rlCalls[u] > rlLimit

C10_Witness ==
    \E u \in UserIds :
        /\ rlLimit = 3
        /\ rlCalls[u] = 4
        /\ rlTrues[u] = 3
        /\ rlCount[u] = 3
        /\ rlLast[u] = "false"

\* C11: under any interleaving of the check_rate_limit calls of one user in one
\* window, the stored count equals the number of calls that returned True and
\* no more than `limit` calls return True.
C11_AtomicCounter ==
    /\ rlCount[1] = rlTrues[1]
    /\ rlTrues[1] <= rlLimit

\* the events of a trace that read or write a cache: every check_table_access
\* call starts with cache.get_user_permissions
CacheEvents == {"access", "rls", "cache_get", "cache_set"}

HasEvent(trace, evs) == \E i \in 1..Len(trace) : trace[i].ev \in evs

HasForbiddenWord(sql) == \E i \in 1..Len(sql) : Upper(sql[i]) \in FORBIDDEN_KEYWORDS

\* C12: an execute_query invocation whose text fails validation (here: it holds
\* a forbidden keyword, or validate_query was seen to reject it) neither reads
\* nor writes the result cache or the permission cache.
C12_NoCacheOnInvalid ==
    ( /\ last.op = "exec"
      /\ \/ HasForbiddenWord(last.sql)
         \/ last.trace[1] = E("validate", FALSE, Null) )
    => /\ ~HasEvent(last.trace, CacheEvents)
       /\ ~last.cache_written

C12_Witness ==
    /\ last.op = "exec"
    /\ last.sql = QDelete
    /\ last.cache_results
    /\ last.outcome = "QueryValidationError"
    /\ last.trace[1] = E("validate", FALSE, Null)
    /\ perms[<<last.u, "orders">>] # NoRow
    /\ DOMAIN resultCache # {}

ContainsSeq(sql, part) ==
    \E i \in 0..(Len(sql) - Len(part)) : SubSeq(sql, i + 1, i + Len(part)) = part

\* C16: when execute_query applied the row filter of the user's permission on
\* orders, the text it returns (and executes) contains WHERE followed by the
\* row filter in parentheses.
C16_FilterParenthesised ==
    ( /\ last.op = "exec"
      /\ last.outcome = "ok"
      /\ last.sql = QSelect
      /\ HasEvent(last.trace, {"rls"}) )
    => \E f \in {g.row_filter : g \in GrantArgs} \ {Null} :
          ContainsSeq(last.final_sql, <<"WHERE", "(", f, ")">>)

\* C17: when the commit of the audit row of a failed invocation raises, the
\* caller still receives the pipeline's own error.
C17_AuditFailureNotMasking ==
    ( /\ last.op = "exec"
      /\ \E i \in 1..Len(last.trace) : last.trace[i].ev = "audit_error" /\ ~last.trace[i].ok )
    => last.outcome \in {"QueryValidationError", "PermissionError", "TimeoutError",
                         "ExecutionError"}

\* the tables a text names after FROM and after JOIN
NamedTables(sql) ==
    {sql[i + 1] : i \in {k \in 1..(Len(sql) - 1) :
                            Upper(sql[k]) \in {"FROM", "JOIN"} /\ ~IsKeyword(sql[k + 1])}}

\* C14: extract_tables_from_query returns every table of the FROM clause and of
\* each JOIN clause of a read statement.
C14_ExtractsJoinTables ==
    (last.op = "extract" /\ last.sql \in ReadTexts) => last.tables = NamedTables(last.sql)

\* rows of orders and the meaning of the conditions used in the texts
OrderRows == [id : {1, 2}, status : {"open", "closed"}, region : {"west", "east"}]

AtomTrue(row, atom) ==
    CASE atom = "id=1" -> row.id = 1
      [] atom = "status='open'" -> row.status = "open"
      [] atom = "region='west'" -> row.region = "west"
      [] OTHER -> FALSE

\* the condition of the WHERE clause of a text: the tokens after WHERE up to
\* ORDER BY, GROUP BY, HAVING, LIMIT, OFFSET or the end
Cond(sql) ==
    LET w == Min({i \in 1..Len(sql) : Upper(sql[i]) = "WHERE"})
        ends == {i \in (w + 1)..Len(sql) : TrailingAt(sql, i)}
    IN SubSeq(sql, w + 1, IF ends = {} THEN Len(sql) ELSE Min(ends) - 1)

TopLevel(toks, word) ==
    {i \in 1..Len(toks) :
        /\ toks[i] = word
        /\ Cardinality({k \in 1..(i - 1) : toks[k] = "("})
             = Cardinality({k \in 1..(i - 1) : toks[k] = ")"})}

\* SQL evaluation of a condition on a row: OR binds weaker than AND
RECURSIVE Holds(_, _)
Holds(row, toks) ==
    IF TopLevel(toks, "OR") # {}
    THEN LET i == Min(TopLevel(toks, "OR")) IN
         Holds(row, SubSeq(toks, 1, i - 1)) \/ Holds(row, SubSeq(toks, i + 1, Len(toks)))
    ELSE IF TopLevel(toks, "AND") # {}
    THEN LET i == Min(TopLevel(toks, "AND")) IN
         Holds(row, SubSeq(toks, 1, i - 1)) /\ Holds(row, SubSeq(toks, i + 1, Len(toks)))
    ELSE IF Len(toks) >= 2 /\ toks[1] = "(" /\ toks[Len(toks)] = ")"
    THEN Holds(row, SubSeq(toks, 2, Len(toks) - 1))
    ELSE Len(toks) = 1 /\ AtomTrue(row, toks[1])

\* C15: for a text that already has a WHERE clause with condition C, however
\* WHERE is capitalised, the rewritten text selects exactly the rows that
\* satisfy both C and the row filter.
C15_FilterConjoined ==
    (last.op = "rewrite" /\ HasUpperToken(last.sql, "WHERE"))
    => \A row \in OrderRows :
          Holds(row, Cond(last.result))
            <=> (Holds(row, Cond(last.sql)) /\ AtomTrue(row, last.row_filter))

\* C19 as stated: with allow_write = false validate_query returns ok = false
\* exactly when a forbidden keyword occurs in the text as a whole word.
C19_RejectedIffForbiddenWord ==
    (last.op = "validate" /\ ~last.allow_write)
    => (~last.result.ok <=> HasForbiddenWord(last.sql))

\* C19 amended: with allow_write = false a text with a forbidden keyword as a
\* whole word is rejected, the forbidden-keyword rejection is given exactly for
\* these texts (a keyword inside an identifier does not count), and the plain
\* read statements are accepted.
C19_ForbiddenWordRejected ==
    (last.op = "validate" /\ ~last.allow_write)
    => /\ HasForbiddenWord(last.sql) => ~last.result.ok
       /\ last.result.reason = "Forbidden keyword" <=> HasForbiddenWord(last.sql)
       /\ last.sql \in ReadTexts => last.result.ok

C19_Witness ==
    /\ last.op = "validate"
    /\ ~last.allow_write
    /\ last.sql = <<"SELECT", "*", "FROM", "backdrop_events">>
    /\ last.result.ok

\* part lists exactly the elements of whole that are in the set keep, in the
\* order (and with the repetitions) they have in whole
IsRestriction(part, whole, keep) ==
    \E f \in [1..Len(part) -> 1..Len(whole)] :
        /\ \A j, k \in 1..Len(part) : j < k => f[j] < f[k]
        /\ \A k \in 1..Len(part) : part[k] = whole[f[k]]
        /\ {f[k] : k \in 1..Len(part)} = {i \in 1..Len(whole) : whole[i] \in keep}

C20_ResolutionIdempotent ==
    (last.op = "check" /\ ~last.raised /\ last.before # Miss)
    => /\ last.has_access = last.before.has_access
       /\ last.permissions = last.before.permissions

\* C21: after a check_table_access call that missed the permission cache, the
\* cache holds an entry for (user, table) that carries the resolved can_read,
\* whatever the outcome was: admin, Permission row, or denial.
C21_CachedWhateverOutcome ==
    (last.op = "check" /\ ~last.raised /\ last.source # "cache")
    => /\ permCache[<<last.u, last.t>>] # Miss
       /\ permCache[<<last.u, last.t>>].can_read = last.has_access

\* C22: after any interleaving of grant_table_permission and
\* revoke_table_permission calls the permission store holds at most one row per
\* (user, table); a grant on an existing triple updates the row in place.
C22_OneRowPerTriple ==
    /\ \A k \in UserIds \X Tables : Cardinality(RowsFor(permRows, k)) <= 1
    /\ (last.op = "grant_commit" /\ last.seen # 0 /\ last.outcome = "ok")
          => HasId(permRows, last.seen)

C22_Witness ==
    /\ last.op = "grant_commit"
    /\ last.seen = 0
    /\ last.outcome = "IntegrityError"
    /\ Cardinality(RowsFor(permRows, last.key)) = 1

\* C28: a rate-limit counter key that exists carries an expiry, under every
\* interleaving of the calls with the expiry of the key.
C28_CounterKeyExpires ==
    \A u \in UserIds : rlCount[u] > 0 => rlTtl[u]

\* C23: when the database call of execute_query exceeds the timeout, the
\* statement has stopped on the server by the time TimeoutError reaches the
\* caller.
C23_TimeoutCancelsCall ==
    (last.op = "exec" /\ last.outcome = "TimeoutError")
    => /\ HasEvent(last.trace, {"wait_for_cancel"})
       /\ \A i \in 1..Len(last.trace) :
             last.trace[i].ev = "wait_for_cancel" => last.trace[i].ok

AccessPassed(sql, trace) ==
    /\ extract_tables_from_query(sql) # {}
    /\ \A t \in extract_tables_from_query(sql) :
          \E i \in 1..Len(trace) : trace[i] = E("access", TRUE, t)

\* C26: an execute_query invocation with cache_results = false makes no
\* result-cache lookup and no result-cache write, leaves the result cache as it
\* was, returns cached = false, and reaches the database call once validation
\* and the access checks have passed.
C26_NoCacheWhenNotAllowed ==
    (last.op = "exec" /\ ~last.cache_results)
    => /\ ~HasEvent(last.trace, {"cache_get", "cache_set"})
       /\ ~last.result_cache_written
       /\ ~last.cached
       /\ AccessPassed(last.sql, last.trace) => HasEvent(last.trace, {"db"})

C26_Witness ==
    /\ last.op = "exec"
    /\ ~last.cache_results
    /\ last.outcome = "ok"
    /\ last.rows # <<>>
    /\ ~last.cached
    /\ HasEvent(last.trace, {"db"})
    /\ generate_query_key(last.final_sql, last.params) \in DOMAIN resultCache

\* C27: for a user who is not an admin and whose Permission row on orders
\* restricts allowed_columns, the rows execute_query returns hold no column
\* outside the allowed ones.
C27_OnlyAllowedColumns ==
    ( /\ last.op = "exec"
      /\ last.outcome = "ok"
      /\ ~IsActiveAdmin(users, last.u)
      /\ perms[<<last.u, "orders">>] # NoRow
      /\ ~perms[<<last.u, "orders">>].allowed_columns.null )
    => \A i \in 1..Len(last.rows) :
          DOMAIN last.rows[i] \subseteq
              {perms[<<last.u, "orders">>].allowed_columns.cols[k] :
                  k \in 1..Len(perms[<<last.u, "orders">>].allowed_columns.cols)}

\* C30: when execute_query resolved a permission with a row filter for the
\* user, the text it looks up in the result cache contains the filter, and rows
\* it serves from the cache satisfy the filter.
C30_CacheKeyCarriesFilter ==
    ( /\ last.op = "exec"
      /\ last.outcome = "ok"
      /\ HasEvent(last.trace, {"rls"}) )
    => /\ \E f \in RowFilters : HasToken(last.final_sql, f)
       /\ last.cached => \A i \in 1..Len(last.rows) : last.rows[i].region.v = "west"

\* C25: for a text without a WHERE clause the rewrite is the text with
\* WHERE <row filter> inserted in front of the first trailing clause keyword of
\* the statement (ORDER BY, GROUP BY, HAVING, LIMIT, OFFSET), or at the end when
\* there is none, and the tokens on both sides are the tokens of the text; this
\* also when such a keyword is part of an identifier.
C25_InsertedBeforeTrailing ==
    (last.op = "rewrite" /\ ~HasUpperToken(last.sql, "WHERE"))
    => LET trailing == {k \in 1..Len(last.sql) : TrailingAt(last.sql, k)}
           pos == IF trailing = {} THEN Len(last.sql) + 1 ELSE Min(trailing)
       IN last.result = SubSeq(last.sql, 1, pos - 1)
                          \o <<"WHERE", last.row_filter>>
                          \o SubSeq(last.sql, pos, Len(last.sql))

====
